---- MODULE Spec2Model ----
(***************************************************************************)
(* PropertyCalc: the amortization engine (calculate_mortgage_payment,      *)
(* generate_amortization_schedule) and the two investment projectors       *)
(* (calculate_investment_outlook of testpropertyCalc.py, the generalized   *)
(* one with a projection horizon, and of PropertyCalc.py, the simple one). *)
(*                                                                         *)
(* Numbers.  The program computes in Python floats (IEEE-754 binary64).    *)
(* A number is modelled as a reduced fraction <<n, d>>, d > 0.  Every      *)
(* arithmetic operation of the source is the exact rational operation      *)
(* followed by F, the rounding of the result.  The variable arith selects  *)
(* what F does:                                                            *)
(*   "float"  round to nearest, ties to even, to a significand of Mantissa *)
(*            bits: the rounding of binary64 at a reduced precision (TLC's *)
(*            integers cannot hold 53-bit significands);                   *)
(*   "exact"  no rounding: the exact-arithmetic reading that the spec's    *)
(*            "in exact arithmetic" / "within tolerance" properties use.   *)
(* Exponent range (overflow to inf, subnormals) is not modelled.           *)
(***************************************************************************)
EXTENDS Integers, Sequences, FiniteSets, TLC

VARIABLES arith, params, investment_period, call, pc, err,
          payment_amount, balance, k,
          payment_list, interest_list, principal_list,
          i, annual_interest, annual_principal, slices,
          results, simple_run, simple_results

vars == <<arith, params, investment_period, call, pc, err,
          payment_amount, balance, k,
          payment_list, interest_list, principal_list,
          i, annual_interest, annual_principal, slices,
          results, simple_run, simple_results>>

(* ------------------------------ bounds -------------------------------- *)

\* significand bits of the reduced-precision float
Mantissa == 8
\* loan_term ranges over 1..MaxYears
MaxYears == 3
\* investment_period ranges over -1..MaxHorizon
MaxHorizon == 4

\* weeks per year in the rental income formula
WeeksPerYear == 52

(* ------------------------- rational arithmetic ------------------------ *)

RECURSIVE GCD(_, _)
GCD(a, b) == IF b = 0 THEN a ELSE GCD(b, a % b)

Abs(x) == IF x < 0 THEN -x ELSE x

Min(a, b) == IF a <= b THEN a ELSE b

\* the reduced fraction n/d (d # 0)
Rat(n, d) ==
    LET g == GCD(Abs(n), Abs(d))
        s == IF d < 0 THEN -1 ELSE 1
    IN  <<s * (n \div g), s * (d \div g)>>

Num(n) == <<n, 1>>
Zero == <<0, 1>>
One == <<1, 1>>

RNeg(a) == <<-a[1], a[2]>>

RAdd(a, b) ==
    LET g == GCD(a[2], b[2])
    IN  Rat(a[1] * (b[2] \div g) + b[1] * (a[2] \div g), (a[2] \div g) * b[2])

RSub(a, b) == RAdd(a, RNeg(b))

RMul(a, b) ==
    LET g1 == GCD(Abs(a[1]), b[2])
        g2 == GCD(Abs(b[1]), a[2])
    IN  IF a[1] = 0 \/ b[1] = 0 THEN Zero
        ELSE <<(a[1] \div g1) * (b[1] \div g2), (a[2] \div g2) * (b[2] \div g1)>>

\* b # 0
RDiv(a, b) == RMul(a, Rat(b[2], b[1]))

RECURSIVE RPow(_, _)
RPow(a, n) == IF n = 0 THEN One ELSE RMul(a, RPow(a, n - 1))

RLt(a, b) == a[1] * b[2] < b[1] * a[2]

RLe(a, b) == a[1] * b[2] <= b[1] * a[2]

IsZero(a) == a[1] = 0

RECURSIVE Pow2(_)
Pow2(n) == IF n = 0 THEN 1 ELSE 2 * Pow2(n - 1)

\* n/d > 0 rounded to Mantissa significant bits, nearest, ties to even
RECURSIVE RoundPos(_, _)
RoundPos(n, d) ==
    IF n >= Pow2(Mantissa) * d
        THEN RMul(Num(2), RoundPos(n, 2 * d))
    ELSE IF n < Pow2(Mantissa - 1) * d
        THEN RMul(<<1, 2>>, RoundPos(2 * n, d))
    ELSE LET q == n \div d
             rem == n - q * d
         IN  IF 2 * rem > d THEN Num(q + 1)
             ELSE IF 2 * rem = d THEN Num(q + (q % 2))
             ELSE Num(q)

Round(x) ==
    IF x[1] = 0 THEN Zero
    ELSE IF x[1] < 0 THEN RNeg(RoundPos(-x[1], x[2]))
    ELSE RoundPos(x[1], x[2])

\* the result of one arithmetic operation of the source
F(x) == IF arith = "float" THEN Round(x) ELSE x

Add(a, b) == F(RAdd(a, b))
Sub(a, b) == F(RSub(a, b))
Mul(a, b) == F(RMul(a, b))
Div(a, b) == F(RDiv(a, b))
Pow(a, n) == F(RPow(a, n))
Neg(a) == RNeg(a)

\* np.sum of a slice shorter than 8 elements: a running sum from 0
RECURSIVE NpSum(_)
NpSum(s) == IF s = <<>> THEN Zero
            ELSE Add(NpSum(SubSeq(s, 1, Len(s) - 1)), s[Len(s)])

\* s[a:b] of Python (0-based, end exclusive, cut at the end of s), 0 <= a
Slice(s, a, b) == SubSeq(s, a + 1, Min(b, Len(s)))

(* ------------------------------ inputs -------------------------------- *)

Ariths == {"exact", "float"}
\* loan_amount
Principals == {Num(3), Num(15), Num(100)}
\* interest_rate (0 is the degenerate rate of the annuity formula)
Rates == {Zero, One, Num(4)}
\* payment_frequency
Freqs == {1, 2}
\* payment_amount of a direct call of generate_amortization_schedule
Payments == {One, Num(6), Num(200)}
\* marginal_tax_rate
TaxRates == {Zero, <<1, 4>>}
\* property_appreciation
Appreciations == {Zero, <<1, 2>>}

\* the parameter set of the form, with the loan fields drawn from the sets
LoanParams ==
    [property_value : {Num(8)},
     loan_amount : Principals,
     interest_rate : Rates,
     loan_term : 1..MaxYears,
     payment_frequency : Freqs,
     annual_salary : {Num(100)},
     marginal_tax_rate : {Zero},
     weekly_rental_income : {One},
     annual_rental_increase : {<<1, 2>>},
     annual_expense_increase : {<<1, 2>>},
     property_appreciation : {Zero},
     council_rates : {Num(2)},
     water_rates : {One},
     land_tax : {One},
     strata_fees : {One},
     insurance : {Num(3)},
     property_manager_rate : {<<1, 4>>},
     repairs_and_maintenance : {Num(2)},
     depreciation : {Num(5)}]

(* ------------------------- amortization engine ------------------------ *)

\* r = annual_rate / payments_per_year
PeriodRate(annual_rate, payments_per_year) == Div(annual_rate, Num(payments_per_year))

\* (1 + r) ** n - 1, the divisor of the annuity formula
PaymentDivisor(annual_rate, years, payments_per_year) ==
    LET r == PeriodRate(annual_rate, payments_per_year)
        n == years * payments_per_year
    IN  Sub(Pow(Add(One, r), n), One)

\* payment = principal * (r * (1 + r) ** n) / ((1 + r) ** n - 1), divisor # 0
calculate_mortgage_payment(principal, annual_rate, years, payments_per_year) ==
    LET r == PeriodRate(annual_rate, payments_per_year)
        n == years * payments_per_year
    IN  Div(Mul(principal, Mul(r, Pow(Add(One, r), n))),
            PaymentDivisor(annual_rate, years, payments_per_year))

\* ScheduleStep charging the annual rate on the balance every period
ScheduleStepAnnualRate(bal, annual_rate, payments_per_year, pay) ==
    LET interest_payment == Mul(bal, annual_rate)
        principal_payment == Sub(pay, interest_payment)
        newbal == Sub(bal, principal_payment)
        clamped == Add(principal_payment, newbal)
    IN  IF RLt(newbal, Zero)
        THEN [brk |-> TRUE, balance |-> Zero,
              payment |-> Add(clamped, interest_payment),
              interest |-> interest_payment, principal |-> clamped]
        ELSE [brk |-> FALSE, balance |-> newbal,
              payment |-> pay,
              interest |-> interest_payment, principal |-> principal_payment]

\* one iteration of the loop of generate_amortization_schedule from balance bal
ScheduleStep(bal, annual_rate, payments_per_year, pay) ==
    LET interest_payment == Mul(bal, PeriodRate(annual_rate, payments_per_year))
        principal_payment == Sub(pay, interest_payment)
        newbal == Sub(bal, principal_payment)
        clamped == Add(principal_payment, newbal)
    IN  IF RLt(newbal, Zero)
        THEN [brk |-> TRUE, balance |-> Zero,
              payment |-> Add(clamped, interest_payment),
              interest |-> interest_payment, principal |-> clamped]
        ELSE [brk |-> FALSE, balance |-> newbal,
              payment |-> pay,
              interest |-> interest_payment, principal |-> principal_payment]

\* range(int(years * payments_per_year))
NumPeriods == params.loan_term * params.payment_frequency

(* ------------------------------- actions ------------------------------ *)

Init ==
    /\ arith \in Ariths
    /\ params \in LoanParams
    /\ investment_period = 0
    /\ call = "none"
    /\ pc = "start"
    /\ err = "none"
    /\ payment_amount = Zero
    /\ balance = Zero
    /\ k = 0
    /\ payment_list = <<>>
    /\ interest_list = <<>>
    /\ principal_list = <<>>
    /\ i = 0
    /\ annual_interest = <<>>
    /\ annual_principal = <<>>
    /\ slices = <<>>
    /\ results = <<>>
    /\ simple_run = FALSE
    /\ simple_results = <<>>

\* the caller runs calculate_investment_outlook(params, investment_period)
CallOutlook ==
    /\ pc = "start"
    /\ \E ip \in -1..MaxHorizon, mtr \in TaxRates, pa \in Appreciations :
          /\ investment_period' = ip
          /\ params' = [params EXCEPT !.marginal_tax_rate = mtr,
                                      !.property_appreciation = pa]
    /\ call' = "outlook"
    /\ pc' = "payment"
    /\ UNCHANGED <<arith, err, payment_amount, balance, k, payment_list,
                   interest_list, principal_list, i, annual_interest,
                   annual_principal, slices, results, simple_run, simple_results>>

\* calculate_mortgage_payment, then the entry of generate_amortization_schedule
CalcPayment ==
    /\ pc = "payment"
    /\ IF IsZero(PaymentDivisor(params.interest_rate, params.loan_term,
                                params.payment_frequency))
       THEN /\ pc' = "error"
            /\ err' = "ZeroDivisionError"
            /\ UNCHANGED <<payment_amount, balance>>
       ELSE /\ payment_amount' = calculate_mortgage_payment(params.loan_amount,
                 params.interest_rate, params.loan_term, params.payment_frequency)
            /\ balance' = params.loan_amount
            /\ pc' = "schedule"
            /\ err' = err
    /\ UNCHANGED <<arith, params, investment_period, call, k, payment_list,
                   interest_list, principal_list, i, annual_interest,
                   annual_principal, slices, results, simple_run, simple_results>>

\* the caller runs generate_amortization_schedule with a payment of its own
CallSchedule ==
    /\ pc = "start"
    /\ \E pay \in Payments : payment_amount' = pay
    /\ balance' = params.loan_amount
    /\ call' = "schedule"
    /\ pc' = "schedule"
    /\ UNCHANGED <<arith, params, investment_period, err, k, payment_list,
                   interest_list, principal_list, i, annual_interest,
                   annual_principal, slices, results, simple_run, simple_results>>

\* one iteration of the schedule loop; the clamping iteration breaks out
SchedStep ==
    /\ pc = "schedule"
    /\ k < NumPeriods
    /\ LET st == ScheduleStep(balance, params.interest_rate,
                              params.payment_frequency, payment_amount)
       IN  /\ balance' = st.balance
           /\ payment_list' = Append(payment_list, st.payment)
           /\ interest_list' = Append(interest_list, st.interest)
           /\ principal_list' = Append(principal_list, st.principal)
           /\ pc' = IF st.brk THEN "returned" ELSE "schedule"
    /\ k' = k + 1
    /\ UNCHANGED <<arith, params, investment_period, call, err, payment_amount,
                   i, annual_interest, annual_principal, slices, results,
                   simple_run, simple_results>>

\* the loop ran its int(years * payments_per_year) iterations
SchedReturn ==
    /\ pc = "schedule"
    /\ k = NumPeriods
    /\ pc' = "returned"
    /\ UNCHANGED <<arith, params, investment_period, call, err, payment_amount,
                   balance, k, payment_list, interest_list, principal_list,
                   i, annual_interest, annual_principal, slices, results,
                   simple_run, simple_results>>

(* -------------------------- investment projector ---------------------- *)

\* YearSlice holding the year index at the last paid year instead of breaking
YearSliceRepeatLast(ii, num_payments_made, payment_frequency) ==
    LET num_years_payments_made == num_payments_made \div payment_frequency
        last == IF ii < num_years_payments_made THEN ii
                ELSE num_years_payments_made - 1
    IN  IF num_years_payments_made = 0
        THEN [brk |-> TRUE, start_idx |-> 0, end_idx |-> 0]
        ELSE [brk |-> FALSE, start_idx |-> last * payment_frequency,
              end_idx |-> (last + 1) * payment_frequency]

\* YearSlice whose slices start one record late
YearSliceOffByOne(ii, num_payments_made, payment_frequency) ==
    LET num_years_payments_made == num_payments_made \div payment_frequency
        remainder_payments == num_payments_made % payment_frequency
    IN  IF ii < num_years_payments_made
        THEN [brk |-> FALSE, start_idx |-> ii * payment_frequency + 1,
              end_idx |-> (ii + 1) * payment_frequency]
        ELSE IF ii = num_years_payments_made /\ remainder_payments > 0
        THEN [brk |-> FALSE, start_idx |-> ii * payment_frequency + 1,
              end_idx |-> ii * payment_frequency + remainder_payments]
        ELSE [brk |-> TRUE, start_idx |-> 0, end_idx |-> 0]

\* the slice of period records of year index ii (0-based), or the break
YearSlice(ii, num_payments_made, payment_frequency) ==
    LET num_years_payments_made == num_payments_made \div payment_frequency
        remainder_payments == num_payments_made % payment_frequency
    IN  IF ii < num_years_payments_made
        THEN [brk |-> FALSE, start_idx |-> ii * payment_frequency,
              end_idx |-> (ii + 1) * payment_frequency]
        ELSE IF ii = num_years_payments_made /\ remainder_payments > 0
        THEN [brk |-> FALSE, start_idx |-> ii * payment_frequency,
              end_idx |-> ii * payment_frequency + remainder_payments]
        ELSE [brk |-> TRUE, start_idx |-> 0, end_idx |-> 0]

\* weekly_rental_income * 52 * ((1 + annual_rental_increase) ** ii)
RentalIncome(ii) ==
    Mul(Mul(params.weekly_rental_income, Num(WeeksPerYear)),
        Pow(Add(One, params.annual_rental_increase), ii))

\* item * (1 + annual_expense_increase) ** year, year = ii + 1
Escalated(item, ii) ==
    Mul(item, Pow(Add(One, params.annual_expense_increase), ii + 1))

\* property_manager_rate * annual_rental_income_array
ManagerFees(ii) == Mul(params.property_manager_rate, RentalIncome(ii))

\* other_expenses of year index ii (no interest, principal or depreciation)
OtherExpenses(ii) ==
    Add(Add(Add(Add(Add(Add(Escalated(params.council_rates, ii),
                            Escalated(params.water_rates, ii)),
                        params.land_tax),
                    Escalated(params.strata_fees, ii)),
                Escalated(params.insurance, ii)),
            ManagerFees(ii)),
        params.repairs_and_maintenance)

\* property_value * (1 + property_appreciation) ** kk
PropertyValue(kk) ==
    Mul(params.property_value, Pow(Add(One, params.property_appreciation), kk))

\* CapitalGain without the np.diff: the property value itself
CapitalGainNoDiff(ii) == PropertyValue(ii + 1)

\* np.diff(property_values)[ii]
CapitalGain(ii) == Sub(PropertyValue(ii + 1), PropertyValue(ii))

\* the row of year index ii of the generalized variant's table
OutlookRow(ii) ==
    LET rental == RentalIncome(ii)
        ai == annual_interest[ii + 1]
        ap == annual_principal[ii + 1]
        other == OtherExpenses(ii)
        total_cash_outflows == Add(Add(ai, ap), other)
        net_cash_flow_before_tax == Sub(rental, total_cash_outflows)
        taxable_income == Sub(rental, Add(Add(ai, other), params.depreciation))
        tax_benefit == Mul(Neg(taxable_income), params.marginal_tax_rate)
        net_cash_flow_after_tax == Add(net_cash_flow_before_tax, tax_benefit)
        capital_gains == CapitalGain(ii)
    IN  [Year |-> ii + 1,
         RentalIncome |-> rental,
         InterestPayment |-> ai,
         PrincipalPayment |-> ap,
         OtherExpenses |-> other,
         TotalCashOutflows |-> total_cash_outflows,
         NetCashFlowBeforeTax |-> net_cash_flow_before_tax,
         TaxableIncome |-> taxable_income,
         TaxBenefit |-> tax_benefit,
         NetCashFlowAfterTax |-> net_cash_flow_after_tax,
         CapitalGains |-> capital_gains,
         FinalNetGainLoss |-> Add(net_cash_flow_after_tax, capital_gains)]

\* SimpleAnnual with the slice of 1-based year numbers
SimpleAnnualShifted(lst, ii) ==
    NpSum(Slice(lst, (ii + 1) * params.payment_frequency,
                (ii + 2) * params.payment_frequency))

\* np.sum(lst[ii * payment_frequency:(ii + 1) * payment_frequency])
SimpleAnnual(lst, ii) ==
    NpSum(Slice(lst, ii * params.payment_frequency,
                (ii + 1) * params.payment_frequency))

\* the row of year index ii of the simple variant's table
SimpleRow(ii) ==
    LET rental == RentalIncome(ii)
        ai == SimpleAnnual(interest_list, ii)
        ap == SimpleAnnual(principal_list, ii)
        total_annual_expenses ==
            Add(Add(Add(Add(Add(Add(Add(Add(ai,
                Escalated(params.council_rates, ii)),
                Escalated(params.water_rates, ii)),
                params.land_tax),
                Escalated(params.strata_fees, ii)),
                Escalated(params.insurance, ii)),
                ManagerFees(ii)),
                params.repairs_and_maintenance),
                params.depreciation)
        net_rental_loss == Sub(rental, total_annual_expenses)
        tax_benefit == Mul(Neg(net_rental_loss), params.marginal_tax_rate)
        net_profit_loss_after_tax == Add(net_rental_loss, tax_benefit)
        capital_gains == CapitalGain(ii)
    IN  [Year |-> ii + 1,
         RentalIncome |-> rental,
         InterestPayment |-> ai,
         PrincipalPayment |-> ap,
         TotalExpensesDepreciation |-> total_annual_expenses,
         NetRentalLoss |-> net_rental_loss,
         TaxBenefit |-> tax_benefit,
         CashflowAfterNegativeGearing |-> net_profit_loss_after_tax,
         CapitalGains |-> capital_gains,
         FinalNetGainLoss |-> Add(net_profit_loss_after_tax, capital_gains)]

\* years, annual_interest and annual_principal are allocated; np.zeros of a
\* negative length raises ValueError
AllocAnnual ==
    /\ pc = "returned"
    /\ call = "outlook"
    /\ IF investment_period < 0
       THEN /\ pc' = "error"
            /\ err' = "ValueError"
            /\ UNCHANGED <<annual_interest, annual_principal>>
       ELSE /\ annual_interest' = [y \in 1..investment_period |-> Zero]
            /\ annual_principal' = [y \in 1..investment_period |-> Zero]
            /\ pc' = "aggregate"
            /\ err' = err
    /\ UNCHANGED <<arith, params, investment_period, call, payment_amount,
                   balance, k, payment_list, interest_list, principal_list,
                   i, slices, results, simple_run, simple_results>>

\* one iteration of the loop over the years of the investment period
AggYear ==
    /\ pc = "aggregate"
    /\ i < investment_period
    /\ LET ys == YearSlice(i, Len(payment_list), params.payment_frequency)
       IN  IF ys.brk
           THEN /\ pc' = "table"
                /\ UNCHANGED <<i, annual_interest, annual_principal, slices>>
           ELSE /\ annual_interest' = [annual_interest EXCEPT ![i + 1] =
                       NpSum(Slice(interest_list, ys.start_idx, ys.end_idx))]
                /\ annual_principal' = [annual_principal EXCEPT ![i + 1] =
                       NpSum(Slice(principal_list, ys.start_idx, ys.end_idx))]
                /\ slices' = Append(slices, <<ys.start_idx, ys.end_idx>>)
                /\ i' = i + 1
                /\ pc' = pc
    /\ UNCHANGED <<arith, params, investment_period, call, err, payment_amount,
                   balance, k, payment_list, interest_list, principal_list,
                   results, simple_run, simple_results>>

\* the loop over the years ran to the end of the investment period
AggExit ==
    /\ pc = "aggregate"
    /\ i = investment_period
    /\ pc' = "table"
    /\ UNCHANGED <<arith, params, investment_period, call, err, payment_amount,
                   balance, k, payment_list, interest_list, principal_list,
                   i, annual_interest, annual_principal, slices, results,
                   simple_run, simple_results>>

\* the vectorized columns and the DataFrame of the generalized variant
BuildTable ==
    /\ pc = "table"
    /\ results' = [y \in 1..investment_period |-> OutlookRow(y - 1)]
    /\ pc' = "done"
    /\ UNCHANGED <<arith, params, investment_period, call, err, payment_amount,
                   balance, k, payment_list, interest_list, principal_list,
                   i, annual_interest, annual_principal, slices,
                   simple_run, simple_results>>

\* calculate_investment_outlook(params) of PropertyCalc.py on the same
\* parameter set: its payment and schedule are the same code, its table is
\* built from the schedule over range(loan_term)
SimpleOutlook ==
    /\ pc = "done"
    /\ ~simple_run
    /\ simple_results' = [y \in 1..params.loan_term |-> SimpleRow(y - 1)]
    /\ simple_run' = TRUE
    /\ UNCHANGED <<arith, params, investment_period, call, pc, err,
                   payment_amount, balance, k, payment_list, interest_list,
                   principal_list, i, annual_interest, annual_principal,
                   slices, results>>

Next ==
    \/ CallOutlook
    \/ CalcPayment
    \/ CallSchedule
    \/ SchedStep
    \/ SchedReturn
    \/ AllocAnnual
    \/ AggYear
    \/ AggExit
    \/ BuildTable
    \/ SimpleOutlook

Spec == Init /\ [][Next]_vars

(* ------------------------------ properties ---------------------------- *)

\* generate_amortization_schedule has returned its three arrays
ScheduleReturned ==
    \/ pc \in {"returned", "aggregate", "table", "done"}
    \/ pc = "error" /\ err = "ValueError"

\* the calculation has ended, with a result or with an exception
Terminated ==
    \/ pc \in {"done", "error"}
    \/ pc = "returned" /\ call = "schedule"

\* the exact sum of a sequence of numbers
RECURSIVE RSum(_)
RSum(s) == IF s = <<>> THEN Zero ELSE RAdd(Head(s), RSum(Tail(s)))

\* the record indices (0-based) that a sequence of slices visits, in order
RECURSIVE Visited(_)
Visited(sl) ==
    IF sl = <<>> THEN <<>>
    ELSE LET a == Head(sl)[1]
             b == Head(sl)[2]
         IN  [j \in 1..(b - a) |-> a + j - 1] \o Visited(Tail(sl))

\* the number of the first period at whose end the remaining balance
\* bal - (pay - bal * r) has reached zero, counting from period t;
\* NumPeriods + 1 when it does not within the term
RECURSIVE PeriodsToPayoff(_, _)
PeriodsToPayoff(bal, t) ==
    IF t > NumPeriods THEN NumPeriods + 1
    ELSE LET r == PeriodRate(params.interest_rate, params.payment_frequency)
             nb == Sub(bal, Sub(payment_amount, Mul(bal, r)))
         IN  IF RLe(nb, Zero) THEN t ELSE PeriodsToPayoff(nb, t + 1)

\* C1: with the payment of calculate_mortgage_payment the running balance is
\* never negative after a period record, and it is exactly 0 after the last
\* record of the schedule.
C1_BalanceEndsAtZero ==
    call = "outlook" =>
        /\ RLe(Zero, balance)
        /\ ScheduleReturned => IsZero(balance)

\* C2: in exact arithmetic the principal portions of the schedule generated
\* with the payment of calculate_mortgage_payment sum to the principal.
C2_PrincipalSumsToLoan ==
    (call = "outlook" /\ arith = "exact" /\ ScheduleReturned) =>
        RSum(principal_list) = params.loan_amount

C2_Witness ==
    /\ call = "outlook" /\ arith = "exact" /\ ScheduleReturned
    /\ Len(principal_list) >= 4
    /\ params.payment_frequency = 2

\* C3: with investment_period > loan_term every year after the loan term has
\* Interest Payment 0 and Principal Payment 0, and its Total Cash Outflows
\* are its Other Expenses.
C3_PostTermYears ==
    (pc = "done" /\ investment_period > params.loan_term) =>
        \A y \in (params.loan_term + 1)..investment_period :
            /\ IsZero(results[y].InterestPayment)
            /\ IsZero(results[y].PrincipalPayment)
            /\ results[y].TotalCashOutflows = results[y].OtherExpenses

C3_Witness ==
    /\ pc = "done" /\ investment_period > params.loan_term + 1
    /\ ~IsZero(results[params.loan_term].InterestPayment)

C5_RecordCount ==
    (pc = "returned") =>
        Len(payment_list) = Min(NumPeriods, PeriodsToPayoff(params.loan_amount, 1))

\* C6: a projection horizon below 1 fails with an error and yields no table.
C6_HorizonBelowOneFails ==
    (call = "outlook" /\ investment_period < 1 /\ Terminated) =>
        pc = "error" /\ results = <<>>

\* C7: with annualRate = 0 calculate_mortgage_payment returns the flat
\* payment principal / (termYears * paymentsPerYear), not an error.
C7_ZeroRateFlatPayment ==
    (call = "outlook" /\ IsZero(params.interest_rate) /\ pc # "payment") =>
        /\ err = "none"
        /\ payment_amount = RDiv(params.loan_amount, Num(NumPeriods))

\* C8: with annualRate > 0 and the payment of calculate_mortgage_payment every
\* period record has paymentAmount, interestPortion and principalPortion >= 0.
C8_NonNegativePortions ==
    (call = "outlook" /\ RLt(Zero, params.interest_rate)) =>
        \A j \in 1..Len(payment_list) :
            /\ RLe(Zero, payment_list[j])
            /\ RLe(Zero, interest_list[j])
            /\ RLe(Zero, principal_list[j])

\* C9: with marginal_tax_rate = 0 and property_appreciation = 0 every year has
\* Tax Benefit 0 and Capital Gains 0, and Final Net Gain/Loss = Net Cash Flow
\* After Tax = Net Cash Flow Before Tax.
C9_NoTaxNoAppreciation ==
    (pc = "done" /\ IsZero(params.marginal_tax_rate)
                 /\ IsZero(params.property_appreciation)) =>
        \A y \in 1..investment_period :
            /\ IsZero(results[y].TaxBenefit)
            /\ IsZero(results[y].CapitalGains)
            /\ results[y].FinalNetGainLoss = results[y].NetCashFlowAfterTax
            /\ results[y].NetCashFlowAfterTax = results[y].NetCashFlowBeforeTax

C9_Witness ==
    /\ pc = "done" /\ IsZero(params.marginal_tax_rate)
    /\ IsZero(params.property_appreciation)
    /\ investment_period >= 2
    /\ ~IsZero(results[2].NetCashFlowBeforeTax)

\* both variants have produced their tables for the same parameter set,
\* the generalized one with investment_period = loan_term
BothTables ==
    pc = "done" /\ simple_run /\ investment_period = params.loan_term

\* C10 as stated: with investment_period = loan_term the generalized variant
\* yields, for every year, the same Year, Rental Income, Interest Payment,
\* Principal Payment, Tax Benefit, Capital Gains and Final Net Gain/Loss as
\* the simple variant.
C10_SimpleIsSpecialCase ==
    BothTables =>
        \A y \in 1..params.loan_term :
            /\ results[y].Year = simple_results[y].Year
            /\ results[y].RentalIncome = simple_results[y].RentalIncome
            /\ results[y].InterestPayment = simple_results[y].InterestPayment
            /\ results[y].PrincipalPayment = simple_results[y].PrincipalPayment
            /\ results[y].TaxBenefit = simple_results[y].TaxBenefit
            /\ results[y].CapitalGains = simple_results[y].CapitalGains
            /\ results[y].FinalNetGainLoss = simple_results[y].FinalNetGainLoss

\* C10 amended: the two variants agree on Year, Rental Income, Interest
\* Payment, Principal Payment and Capital Gains; in exact arithmetic they
\* agree on Tax Benefit, and the generalized Final Net Gain/Loss is the simple
\* one plus depreciation minus the year's Principal Payment.
C10_AgreeUpToCashBasis ==
    BothTables =>
        \A y \in 1..params.loan_term :
            /\ results[y].Year = simple_results[y].Year
            /\ results[y].RentalIncome = simple_results[y].RentalIncome
            /\ results[y].InterestPayment = simple_results[y].InterestPayment
            /\ results[y].PrincipalPayment = simple_results[y].PrincipalPayment
            /\ results[y].CapitalGains = simple_results[y].CapitalGains
            /\ arith = "exact" =>
                /\ results[y].TaxBenefit = simple_results[y].TaxBenefit
                /\ results[y].FinalNetGainLoss =
                       RSub(RAdd(simple_results[y].FinalNetGainLoss,
                                 params.depreciation),
                            results[y].PrincipalPayment)

C10_Witness ==
    /\ BothTables /\ arith = "exact"
    /\ params.loan_term >= 2
    /\ ~IsZero(results[2].PrincipalPayment)
    /\ results[2].FinalNetGainLoss # simple_results[2].FinalNetGainLoss

====
